---- MODULE Spec2Model ----
(***************************************************************************)
(* Client-side orchestration of the deprescribing front end: the App       *)
(* component (submission and analysis life cycle), the PatientForm, the    *)
(* ResultsDashboard (focused medication, detail modals) and the TaperModal *)
(* (per-instance taper-plan fetch).                                        *)
(*                                                                         *)
(* A user event runs its handler to completion and React re-renders        *)
(* before the next event; the continuation of an awaited request runs to   *)
(* completion as one step.  A component that is not rendered has no state: *)
(* its state variables are kept at their useState initial values, which is *)
(* what the next mount starts from.  A nullable value is a sequence of     *)
(* length 0 (null) or 1.                                                   *)
(*                                                                         *)
(* A getTaperPlan call belongs to the TaperModal instance whose effect     *)
(* issued it.  taperReqs holds, oldest first, the calls of the mounted     *)
(* instance; orphanReqs counts per medication the calls of instances of    *)
(* the mounted dashboard that have been closed.  The setters of an         *)
(* unmounted instance change nothing, so the latter only wait to settle;   *)
(* the calls left over from a dashboard that is gone can reach no mounted  *)
(* component at all and are not tracked further.                           *)
(*                                                                         *)
(* Spec is the workflow: form, submission, analysis, reset, focus and the  *)
(* taper-plan fetch.  The parts of the page that write only their own      *)
(* state are specified beside it over the same variables: SpecView (the    *)
(* category lists and summary counters of any analysis result), SpecExport *)
(* (the two exports of a mounted dashboard) and SpecExtractor (the         *)
(* MedicationExtractor of the form).  In Spec the service reports no       *)
(* aggregate counts, so the counters stay at rest there.                   *)
(***************************************************************************)
EXTENDS Integers, Sequences, FiniteSets, TLC

\* ------------------------------------------------------------------ bounds
MaxMeds == 2
MaxInFlight == 2
MaxShots == 2
MaxListLen == 3

\* --------------------------------------------------------------- constants
Null == <<>>
Some(x) == <<x>>
IsNull(o) == o = <<>>
Val(o) == o[1]

NoError == "null"
NoAlert == "none"
ValidationAlert == "Please fill in age and add at least one medication"
MedicationAlert == "Please enter at least the generic name and dose"
DefaultError == "An error occurred during analysis"

Ages == {"", "75"}

\* what the user can have typed into currentMedication when pressing Add
CurrentMedications ==
  { [generic_name |-> "diazepam", dose |-> "5mg",  duration |-> "long_term"],
    [generic_name |-> "Diazepam", dose |-> "10mg", duration |-> "short_term"],
    [generic_name |-> "zolpidem", dose |-> "",     duration |-> "long_term"] }

\* failures analyzePatient can reject with: err.response.data.detail, err.message
AnalysisErrors ==
  { [detail |-> "Invalid patient data", message |-> "Request failed with status code 422"],
    [detail |-> "", message |-> "Network Error"],
    [detail |-> "", message |-> ""] }

\* the service's verdicts: every medication to be tapered, or only the first
Verdicts == {"all", "first"}

TaperPlans ==
  { [strategy |-> "standard", steps |-> <<1, 2, 3>>],
    [strategy |-> "personalized", steps |-> <<1, 2, 3, 4, 5>>] }

TaperErrors == {"Network Error"}

\* the herb-drug interactions the service reports
Interactions == <<[herb |-> "ginkgo", drug |-> "diazepam", severity |-> "Major"]>>

\* String.prototype.toLowerCase on the names that occur
toLowerCase(s) ==
  CASE s = "Diazepam" -> "diazepam"
    [] s = "Zolpidem" -> "zolpidem"
    [] OTHER -> s

RemoveAt(s, k) == SubSeq(s, 1, k - 1) \o SubSeq(s, k + 1, Len(s))

RECURSIVE SumTo(_, _)
SumTo(f, n) == IF n = 0 THEN 0 ELSE f[n] + SumTo(f, n - 1)

\* ------------------------------------------------------------------- state
VARIABLES
  patientData, results, isLoading, error, showResults,   \* App
  formData, alert,                                       \* PatientForm, window.alert
  analysisReqs,                                          \* analyzePatient calls
  selectedMedication, showTaperModal, showMonitoringModal, \* ResultsDashboard
  showInteractionModal, selectedInteraction,
  taperPlan, loading, taperError, isAiGenerated,         \* TaperModal
  taperReqs, orphanReqs,                                 \* getTaperPlan calls
  settled,                                               \* medications whose fetch has settled
  lastReset,                                             \* where handleReset last ran, until the next submit
  animatedCounts, timer,                                 \* ResultsDashboard summary counters, their interval
  isPdfGenerating, pdfReqs, shotReqs,                    \* ResultsDashboard exports, their pending calls
  lastExport,                                            \* outcome of the export that settled last
  extractedMeds, extractLoading, extractReqs,            \* MedicationExtractor, its pending uploads
  confirmRun                                             \* handleConfirm runs since another handler ran

appVars == <<patientData, results, isLoading, error, showResults>>
formVars == <<formData, alert>>
dashVars == <<selectedMedication, showTaperModal, showMonitoringModal,
              showInteractionModal, selectedInteraction>>
modalVars == <<taperPlan, loading, taperError, isAiGenerated>>
taperNetVars == <<taperReqs, orphanReqs, settled>>
viewVars == <<animatedCounts, timer>>
exportVars == <<isPdfGenerating, pdfReqs, shotReqs, lastExport>>
extractorVars == <<extractedMeds, extractLoading, extractReqs, confirmRun>>
vars == <<appVars, formVars, analysisReqs, dashVars, modalVars, taperNetVars, lastReset,
          viewVars, exportVars, extractorVars>>

formDataInitial == [age |-> "", medications |-> <<>>]
\* no confirmation yet: k confirmations in a row, the first with base entries in the form
noRun == [k |-> 0, base |-> 0]
noOrphans == [m \in 1..MaxMeds |-> 0]
zeroCounts == [red |-> 0, yellow |-> 0, green |-> 0]

\* ----------------------------------------------------- rendering conditions
FormMounted_ignoresLoading == ~showResults
FormMounted == ~showResults /\ ~isLoading
NewPatientOffered == showResults
TryAgainOffered == error \notin {NoError, ""}
ResetOffered == NewPatientOffered \/ TryAgainOffered
DashboardMounted == showResults /\ ~IsNull(patientData) /\ ~IsNull(results)
TaperModalMounted == DashboardMounted /\ showTaperModal /\ selectedMedication # 0
MonitoringModalMounted == DashboardMounted /\ showMonitoringModal /\ selectedMedication # 0
InteractionModalMounted == DashboardMounted /\ showInteractionModal /\ selectedInteraction # 0
\* the export buttons: Download Clinical Report is disabled while
\* isPdfGenerating, Quick Screenshot never is
ClinicalReportOffered == DashboardMounted /\ ~isPdfGenerating
QuickScreenshotOffered_whileIdle == DashboardMounted /\ ~isPdfGenerating
QuickScreenshotOffered == DashboardMounted

medication_analyses == IF IsNull(results) THEN <<>> ELSE Val(results).medication_analyses
herb_drug_interactions ==
  IF IsNull(results) THEN <<>> ELSE Val(results).herb_drug_interactions
priority_summary == IF IsNull(results) THEN Null ELSE Val(results).priority_summary

\* medication_analyses?.filter((m) => m.risk_category === ...) || []
IsRed(m) == m.risk_category = "RED"
IsYellow(m) == m.risk_category = "YELLOW"
IsGreen(m) == m.risk_category = "GREEN"
redMedications == SelectSeq(medication_analyses, IsRed)
yellowMedications_notRed ==
  SelectSeq(medication_analyses, LAMBDA m : m.risk_category # "RED")
yellowMedications == SelectSeq(medication_analyses, IsYellow)
greenMedications == SelectSeq(medication_analyses, IsGreen)

\* ------------------------------------------------------------ remote service
\* analyzePatient: one analysis per submitted medication, named after it
Responses(record) ==
  { [medication_analyses |->
       [i \in 1..Len(record.medications) |->
          [name |-> record.medications[i].generic_name,
           risk_category |-> IF v = "all" \/ i = 1 THEN "RED" ELSE "GREEN",
           taper_required |-> (v = "all" \/ i = 1)]],
     priority_summary |-> Null,
     herb_drug_interactions |-> Interactions] :
    v \in Verdicts }

\* getTaperPlan calls not yet settled
InFlight == Len(taperReqs) + SumTo(orphanReqs, MaxMeds)

\* ------------------------------------------------------------------- Init
Init ==
  /\ patientData = Null /\ results = Null /\ isLoading = FALSE
  /\ error = NoError /\ showResults = FALSE
  /\ formData = formDataInitial /\ alert = NoAlert
  /\ analysisReqs = <<>>
  /\ selectedMedication = 0
  /\ showTaperModal = FALSE /\ showMonitoringModal = FALSE
  /\ showInteractionModal = FALSE /\ selectedInteraction = 0
  /\ taperPlan = Null /\ loading = TRUE
  /\ taperError = Null /\ isAiGenerated = FALSE
  /\ taperReqs = <<>> /\ orphanReqs = noOrphans
  /\ settled = {}
  /\ lastReset = "none"
  /\ animatedCounts = zeroCounts /\ timer = Null
  /\ isPdfGenerating = FALSE /\ pdfReqs = 0 /\ shotReqs = 0
  /\ lastExport = "none"
  /\ extractedMeds = <<>> /\ extractLoading = FALSE /\ extractReqs = 0
  /\ confirmRun = noRun

\* ------------------------------------------------------------ PatientForm
handleInputChange(a) ==
  /\ FormMounted /\ alert = NoAlert
  /\ formData' = [formData EXCEPT !.age = a]
  /\ UNCHANGED <<appVars, extractedMeds, extractLoading, extractReqs, lastReset, viewVars, exportVars, alert, analysisReqs, dashVars, modalVars, taperNetVars>>
  /\ confirmRun' = noRun

addMedication(currentMedication) ==
  /\ FormMounted /\ alert = NoAlert
  /\ Len(formData.medications) < MaxMeds
  /\ IF currentMedication.generic_name # "" /\ currentMedication.dose # ""
       THEN /\ formData' = [formData EXCEPT
                   !.medications = Append(formData.medications, currentMedication)]
            /\ alert' = alert
       ELSE /\ alert' = MedicationAlert
            /\ formData' = formData
  /\ UNCHANGED <<appVars, extractedMeds, extractLoading, extractReqs, lastReset, viewVars, exportVars, analysisReqs, dashVars, modalVars, taperNetVars>>
  /\ confirmRun' = noRun

removeMedication(index) ==
  /\ FormMounted /\ alert = NoAlert
  /\ index \in 1..Len(formData.medications)
  /\ formData' = [formData EXCEPT !.medications = RemoveAt(formData.medications, index)]
  /\ UNCHANGED <<appVars, extractedMeds, extractLoading, extractReqs, lastReset, viewVars, exportVars, alert, analysisReqs, dashVars, modalVars, taperNetVars>>
  /\ confirmRun' = noRun

\* the user closes the alert box; while it is open the page runs nothing
dismissAlert ==
  /\ alert # NoAlert
  /\ alert' = NoAlert
  /\ UNCHANGED <<appVars, extractorVars, lastReset, viewVars, exportVars, formData, analysisReqs, dashVars, modalVars, taperNetVars>>

\* handleSubmit's validation: !formData.age || formData.medications.length === 0
invalidRecord_ageOnly(fd) == fd.age = ""
invalidRecord(fd) == fd.age = "" \/ Len(fd.medications) = 0

\* ------------------------------------------------------ mounting of children
\* PatientForm is rendered iff !showResults && !isLoading; f is the value its
\* handlers leave in formData
RenderForm(f) ==
  /\ formData' = IF FormMounted' THEN f ELSE formDataInitial
  /\ IF FormMounted'
       THEN UNCHANGED extractorVars
       ELSE /\ extractedMeds' = <<>> /\ extractLoading' = FALSE /\ extractReqs' = 0
            /\ confirmRun' = noRun

\* per medication, the calls of the mounted TaperModal instance
liveCount(m) == Cardinality({k \in 1..Len(taperReqs) : taperReqs[k].med = m})

UnmountTaperModal ==
  /\ taperPlan' = Null /\ loading' = TRUE
  /\ taperError' = Null /\ isAiGenerated' = FALSE

\* ResultsDashboard is rendered iff showResults && patientData; a mount starts
\* from the useState initial values, an unmount destroys it and its modal
RenderDashboard_keepsState ==
  UNCHANGED <<dashVars, modalVars, taperNetVars, viewVars, exportVars>>

RenderDashboard ==
  IF DashboardMounted' /\ DashboardMounted
    THEN UNCHANGED <<dashVars, modalVars, taperNetVars, viewVars, exportVars>>
    ELSE /\ selectedMedication' = 0
         /\ showTaperModal' = FALSE /\ showMonitoringModal' = FALSE
         /\ showInteractionModal' = FALSE /\ selectedInteraction' = 0
         /\ UnmountTaperModal
         /\ taperReqs' = <<>>
         /\ orphanReqs' = noOrphans
         /\ settled' = {}
         /\ animatedCounts' = zeroCounts
         /\ timer' = IF DashboardMounted' /\ ~IsNull(priority_summary')
                        THEN Some(zeroCounts) ELSE Null
         /\ isPdfGenerating' = FALSE /\ pdfReqs' = 0 /\ shotReqs' = 0
         /\ lastExport' = "none"

\* ---------------------------------------------------------------------- App
\* handlePatientSubmit up to its await: the request leaves with no response yet
handlePatientSubmit_keepsError(record) ==
  /\ isLoading' = TRUE
  /\ error' = error
  /\ showResults' = FALSE
  /\ analysisReqs' = Append(analysisReqs, [formData |-> record, response |-> Null])
  /\ lastReset' = "none"
  /\ UNCHANGED <<patientData, results>>

handlePatientSubmit(record) ==
  /\ isLoading' = TRUE
  /\ error' = NoError
  /\ showResults' = FALSE
  /\ analysisReqs' = Append(analysisReqs, [formData |-> record, response |-> Null])
  /\ lastReset' = "none"
  /\ UNCHANGED <<patientData, results>>

\* PatientForm.handleSubmit: validation, then onSubmit(formData)
handleSubmit ==
  /\ FormMounted /\ alert = NoAlert
  /\ IF invalidRecord(formData)
       THEN /\ alert' = ValidationAlert
            /\ UNCHANGED <<appVars, extractorVars, lastReset, viewVars, exportVars, formData, analysisReqs, dashVars, modalVars,
                           taperNetVars>>
       ELSE /\ handlePatientSubmit(formData)
            /\ alert' = alert
            /\ RenderForm(formData)
            /\ RenderDashboard

\* the service answers the k-th outstanding analyzePatient call
analyzePatientSettles_dropsRequest(k, outcome) ==
  /\ k \in 1..Len(analysisReqs) /\ IsNull(analysisReqs[k].response)
  /\ analysisReqs' = RemoveAt(analysisReqs, k)
  /\ UNCHANGED <<appVars, extractorVars, lastReset, viewVars, exportVars, formVars, dashVars, modalVars, taperNetVars>>

analyzePatientSettles(k, outcome) ==
  /\ k \in 1..Len(analysisReqs) /\ IsNull(analysisReqs[k].response)
  /\ analysisReqs' = [analysisReqs EXCEPT ![k].response = Some(outcome)]
  /\ UNCHANGED <<appVars, extractorVars, lastReset, viewVars, exportVars, formVars, dashVars, modalVars, taperNetVars>>

analyzePatientFulfils(k) ==
  /\ k \in 1..Len(analysisReqs)
  /\ \E payload \in Responses(analysisReqs[k].formData) :
       analyzePatientSettles(k, [ok |-> TRUE, payload |-> Some(payload), err |-> Null])

analyzePatientRejects(k) ==
  \E err \in AnalysisErrors :
     analyzePatientSettles(k, [ok |-> FALSE, payload |-> Null, err |-> Some(err)])

\* err.response?.data?.detail || err.message || 'An error occurred during analysis'
errorReason_noDefault(err) ==
  IF err.detail # "" THEN err.detail ELSE err.message

errorReason(err) ==
  IF err.detail # "" THEN err.detail
  ELSE IF err.message # "" THEN err.message
  ELSE DefaultError

\* handlePatientSubmit after its await, the rest of the try body
tryBody_dropsResults(req) ==
  /\ patientData' = Some(req.formData)
  /\ results' = results
  /\ showResults' = TRUE

tryBody(req) ==
  /\ patientData' = Some(req.formData)
  /\ results' = Val(req.response).payload
  /\ showResults' = TRUE

\* handlePatientSubmit after its await: try body or catch, then finally
handlePatientSubmitResumes_noFinally(k) ==
  /\ k \in 1..Len(analysisReqs) /\ ~IsNull(analysisReqs[k].response)
  /\ alert = NoAlert
  /\ analysisReqs' = RemoveAt(analysisReqs, k)
  /\ LET req == analysisReqs[k] IN
       IF Val(req.response).ok
         THEN /\ tryBody(req)
              /\ error' = error
         ELSE /\ error' = errorReason(Val(Val(req.response).err))
              /\ UNCHANGED <<patientData, results, showResults>>
  /\ isLoading' = isLoading
  /\ RenderForm(formData)
  /\ RenderDashboard
  /\ UNCHANGED <<alert, lastReset>>

handlePatientSubmitResumes(k) ==
  /\ k \in 1..Len(analysisReqs) /\ ~IsNull(analysisReqs[k].response)
  /\ alert = NoAlert
  /\ analysisReqs' = RemoveAt(analysisReqs, k)
  /\ LET req == analysisReqs[k] IN
       IF Val(req.response).ok
         THEN /\ tryBody(req)
              /\ error' = error
         ELSE /\ error' = errorReason(Val(Val(req.response).err))
              /\ UNCHANGED <<patientData, results, showResults>>
  /\ isLoading' = FALSE
  /\ RenderForm(formData)
  /\ RenderDashboard
  /\ UNCHANGED <<alert, lastReset>>

\* New Patient (shown when showResults) and Try Again (shown when error)
handleReset_keepsResults ==
  /\ ResetOffered /\ alert = NoAlert
  /\ patientData' = Null
  /\ results' = results
  /\ showResults' = FALSE
  /\ error' = NoError
  /\ isLoading' = isLoading
  /\ lastReset' = IF showResults THEN "Analyzed" ELSE "Error"
  /\ RenderForm(formData)
  /\ RenderDashboard
  /\ UNCHANGED <<alert, analysisReqs>>

handleReset ==
  /\ ResetOffered /\ alert = NoAlert
  /\ patientData' = Null
  /\ results' = Null
  /\ showResults' = FALSE
  /\ error' = NoError
  /\ isLoading' = isLoading
  /\ lastReset' = IF showResults THEN "Analyzed" ELSE "Error"
  /\ RenderForm(formData)
  /\ RenderDashboard
  /\ UNCHANGED <<alert, analysisReqs>>

\* --------------------------------------------------------- ResultsDashboard
\* patientData.medications.find(m => m.generic_name.toLowerCase() ===
\* medication.name.toLowerCase()): the first match, as a 0/1-element sequence
findMedData(medications, name) ==
  LET hits == {i \in 1..Len(medications) :
                 toLowerCase(medications[i].generic_name) = toLowerCase(name)}
  IN IF hits = {} THEN Null
     ELSE Some(medications[CHOOSE i \in hits : \A j \in hits : i <= j])

\* the request object fetchTaperPlan builds for medication m of the analysis
taperRequest(m) ==
  LET medication == medication_analyses[m]
      medData == findMedData(Val(patientData).medications, medication.name)
  IN [drug_name |-> medication.name,
      current_dose |-> IF IsNull(medData) \/ Val(medData).dose = ""
                         THEN "1 tablet" ELSE Val(medData).dose,
      duration_on_medication |-> IF IsNull(medData) \/ Val(medData).duration = ""
                                   THEN "long_term" ELSE Val(medData).duration,
      patient_age |-> Val(patientData).age]

\* fetchTaperPlan up to its await, run by the effect of the mounted instance
\* whose earlier calls are reqs; an earlier call for the same medication is
\* from now on superseded
fetchTaperPlan(reqs, m) ==
  /\ InFlight < MaxInFlight
  /\ loading' = TRUE
  /\ taperReqs' = Append(
        [k \in 1..Len(reqs) |->
           IF reqs[k].med = m THEN [reqs[k] EXCEPT !.superseded = TRUE] ELSE reqs[k]],
        [med |-> m, request |-> taperRequest(m), superseded |-> FALSE])

\* what a change of selectedMedication to m does to the TaperModal: a mount
\* runs the effect, an update runs it when the medication prop is another object
RenderTaperModal(m) ==
  IF TaperModalMounted
    THEN IF m = selectedMedication
           THEN UNCHANGED <<modalVars, taperNetVars>>
           ELSE /\ fetchTaperPlan(taperReqs, m)
                /\ UNCHANGED <<taperPlan, taperError, isAiGenerated,
                               orphanReqs, settled>>
    ELSE IF showTaperModal'
           THEN /\ taperPlan' = Null /\ taperError' = Null /\ isAiGenerated' = FALSE
                /\ fetchTaperPlan(<<>>, m)
                /\ UNCHANGED <<orphanReqs, settled>>
           ELSE UNCHANGED <<modalVars, taperNetVars>>

handleViewTaper(m) ==
  /\ DashboardMounted /\ alert = NoAlert
  /\ m \in 1..Len(medication_analyses)
  /\ medication_analyses[m].taper_required
  /\ selectedMedication' = m
  /\ showTaperModal' = TRUE
  /\ RenderTaperModal(m)
  /\ UNCHANGED <<appVars, extractorVars, lastReset, viewVars, exportVars, formVars, analysisReqs, showMonitoringModal,
                 showInteractionModal, selectedInteraction>>

handleViewMonitoring(m) ==
  /\ DashboardMounted /\ alert = NoAlert
  /\ m \in 1..Len(medication_analyses)
  /\ selectedMedication' = m
  /\ showMonitoringModal' = TRUE
  /\ showTaperModal' = showTaperModal
  /\ RenderTaperModal(m)
  /\ UNCHANGED <<appVars, extractorVars, lastReset, viewVars, exportVars, formVars, analysisReqs,
                 showInteractionModal, selectedInteraction>>

\* TaperModal onClose: setShowTaperModal(false) unmounts the modal; the calls
\* of the instance stay in flight
closeTaperModal ==
  /\ TaperModalMounted /\ alert = NoAlert
  /\ showTaperModal' = FALSE
  /\ UnmountTaperModal
  /\ taperReqs' = <<>>
  /\ orphanReqs' = [m \in 1..MaxMeds |-> orphanReqs[m] + liveCount(m)]
  /\ UNCHANGED <<appVars, extractorVars, lastReset, viewVars, exportVars, formVars, analysisReqs, selectedMedication,
                 showMonitoringModal, showInteractionModal, selectedInteraction,
                 settled>>

closeMonitoringModal ==
  /\ DashboardMounted /\ showMonitoringModal /\ selectedMedication # 0
  /\ alert = NoAlert
  /\ showMonitoringModal' = FALSE
  /\ UNCHANGED <<appVars, extractorVars, lastReset, viewVars, exportVars, formVars, analysisReqs, selectedMedication,
                 showTaperModal, showInteractionModal, selectedInteraction,
                 modalVars, taperNetVars>>

handleViewInteraction(i) ==
  /\ DashboardMounted /\ alert = NoAlert
  /\ i \in 1..Len(herb_drug_interactions)
  /\ selectedInteraction' = i
  /\ showInteractionModal' = TRUE
  /\ UNCHANGED <<appVars, extractorVars, lastReset, viewVars, exportVars, formVars, analysisReqs, selectedMedication,
                 showTaperModal, showMonitoringModal, modalVars, taperNetVars>>

\* InteractionModal onClose
closeInteractionModal ==
  /\ DashboardMounted /\ showInteractionModal /\ selectedInteraction # 0
  /\ alert = NoAlert
  /\ showInteractionModal' = FALSE
  /\ UNCHANGED <<appVars, extractorVars, lastReset, viewVars, exportVars, formVars, analysisReqs, selectedMedication,
                 showTaperModal, showMonitoringModal, selectedInteraction,
                 modalVars, taperNetVars>>

\* --------------------------------------------------------------- TaperModal
\* fetchTaperPlan after its await in the mounted instance, getTaperPlan
\* fulfilled with plan
fetchTaperPlanFulfilled(k, plan) ==
  /\ k \in 1..Len(taperReqs) /\ alert = NoAlert
  /\ taperReqs' = RemoveAt(taperReqs, k)
  /\ taperPlan' = Some(plan)
  /\ isAiGenerated' = (Len(plan.steps) > 4)
  /\ loading' = FALSE
  /\ settled' = settled \cup {taperReqs[k].med}
  /\ UNCHANGED <<appVars, extractorVars, lastReset, viewVars, exportVars, formVars, analysisReqs, dashVars, taperError,
                 orphanReqs>>

\* fetchTaperPlan after its await in the mounted instance, getTaperPlan
\* rejected with err.message = msg
fetchTaperPlanRejected(k, msg) ==
  /\ k \in 1..Len(taperReqs) /\ alert = NoAlert
  /\ taperReqs' = RemoveAt(taperReqs, k)
  /\ taperError' = Some(msg)
  /\ loading' = FALSE
  /\ settled' = settled \cup {taperReqs[k].med}
  /\ UNCHANGED <<appVars, extractorVars, lastReset, viewVars, exportVars, formVars, analysisReqs, dashVars, taperPlan, isAiGenerated,
                 orphanReqs>>

\* fetchTaperPlan after its await in an instance closed since: its setters
\* change nothing
orphanSettles(m) ==
  /\ m \in 1..MaxMeds /\ orphanReqs[m] > 0 /\ alert = NoAlert
  /\ orphanReqs' = [orphanReqs EXCEPT ![m] = @ - 1]
  /\ UNCHANGED <<appVars, extractorVars, lastReset, viewVars, exportVars, formVars, analysisReqs, dashVars, modalVars,
                 taperReqs, settled>>

\* ------------------------------------------------------------ specification
Next ==
  \/ \E a \in Ages : handleInputChange(a)
  \/ \E c \in CurrentMedications : addMedication(c)
  \/ \E i \in 1..MaxMeds : removeMedication(i)
  \/ dismissAlert
  \/ handleSubmit
  \/ \E k \in 1..Len(analysisReqs) : analyzePatientFulfils(k)
  \/ \E k \in 1..Len(analysisReqs) : analyzePatientRejects(k)
  \/ \E k \in 1..Len(analysisReqs) : handlePatientSubmitResumes(k)
  \/ handleReset
  \/ \E m \in 1..MaxMeds : handleViewTaper(m)
  \/ \E m \in 1..MaxMeds : handleViewMonitoring(m)
  \/ closeTaperModal
  \/ closeMonitoringModal
  \/ \E i \in 1..Len(Interactions) : handleViewInteraction(i)
  \/ closeInteractionModal
  \/ \E k \in 1..Len(taperReqs), plan \in TaperPlans : fetchTaperPlanFulfilled(k, plan)
  \/ \E k \in 1..Len(taperReqs), msg \in TaperErrors : fetchTaperPlanRejected(k, msg)
  \/ \E m \in 1..MaxMeds : orphanSettles(m)

Spec == Init /\ [][Next]_vars

TypeOK ==
  /\ isLoading \in BOOLEAN /\ showResults \in BOOLEAN
  /\ Len(patientData) <= 1 /\ Len(results) <= 1
  /\ selectedMedication \in 0..MaxMeds
  /\ InFlight \in 0..MaxInFlight
  /\ settled \subseteq 1..MaxMeds
  /\ lastReset \in {"none", "Analyzed", "Error"}
  /\ animatedCounts \in [red : 0..MaxMeds, yellow : 0..MaxMeds, green : 0..MaxMeds]
  /\ Len(timer) <= 1
  /\ isPdfGenerating \in BOOLEAN /\ pdfReqs \in 0..1 /\ shotReqs \in 0..MaxShots
  /\ lastExport \in {"none", "report saved", "report failed",
                      "snapshot saved", "snapshot failed"}
  /\ extractLoading \in BOOLEAN /\ extractReqs \in 0..1
  /\ confirmRun \in [k : 0..MaxListLen, base : 0..MaxListLen]
  /\ Len(extractedMeds) <= MaxListLen
  /\ Len(formData.medications) <= MaxListLen

\* ------------------------------------------------- the summary of a result
\* The summary cards and the category lists read the analysis result only.
\* They are specified from a dashboard just mounted on any result the
\* service can return: up to MaxMeds analyses, each in one of the three risk
\* categories, with the aggregate counts absent, right or wrong.
Categories == {"RED", "YELLOW", "GREEN"}

MedicationName(i) ==
  CASE i = 1 -> "diazepam" [] i = 2 -> "zolpidem" [] i = 3 -> "warfarin" [] OTHER -> "digoxin"

\* herb_drug_interactions as the service may return them: empty, one entry,
\* a Minor entry ahead of a Major one, two entries of one severity
InteractionLists ==
  { <<>>,
    Interactions,
    <<[herb |-> "chamomile", drug |-> "diazepam", severity |-> "Minor"],
      [herb |-> "ginkgo", drug |-> "diazepam", severity |-> "Major"]>>,
    <<[herb |-> "kava", drug |-> "diazepam", severity |-> "Moderate"],
      [herb |-> "valerian", drug |-> "diazepam", severity |-> "Moderate"]>> }

PrioritySummaries ==
  {Null} \cup {Some(ps) : ps \in [RED : 0..MaxMeds, YELLOW : 0..MaxMeds, GREEN : 0..MaxMeds]}

AnalysisResults ==
  { [medication_analyses |->
       [i \in 1..n |-> [name |-> MedicationName(i),
                        risk_category |-> cat[i],
                        taper_required |-> (cat[i] = "RED")]],
     priority_summary |-> ps,
     herb_drug_interactions |-> hdi] :
    <<n, cat, ps, hdi>> \in
      UNION {{<<len, c, p, h>> : c \in [1..len -> Categories], p \in PrioritySummaries,
                                 h \in InteractionLists} :
             len \in 0..MaxMeds} }

analyzedRecord ==
  [age |-> "75",
   medications |-> <<[generic_name |-> "diazepam", dose |-> "5mg", duration |-> "long_term"]>>]

\* the state the success continuation of handlePatientSubmit leaves, the
\* dashboard mounted on result res
Analyzed(res) ==
  /\ patientData = Some(analyzedRecord) /\ results = Some(res)
  /\ isLoading = FALSE /\ error = NoError /\ showResults = TRUE
  /\ formData = formDataInitial /\ alert = NoAlert
  /\ analysisReqs = <<>>
  /\ selectedMedication = 0
  /\ showTaperModal = FALSE /\ showMonitoringModal = FALSE
  /\ showInteractionModal = FALSE /\ selectedInteraction = 0
  /\ taperPlan = Null /\ loading = TRUE
  /\ taperError = Null /\ isAiGenerated = FALSE
  /\ taperReqs = <<>> /\ orphanReqs = noOrphans
  /\ settled = {}
  /\ lastReset = "none"
  /\ animatedCounts = zeroCounts
  /\ timer = IF IsNull(res.priority_summary) THEN Null ELSE Some(zeroCounts)
  /\ isPdfGenerating = FALSE /\ pdfReqs = 0 /\ shotReqs = 0
  /\ lastExport = "none"
  /\ extractedMeds = <<>> /\ extractLoading = FALSE /\ extractReqs = 0
  /\ confirmRun = noRun

InitView == \E res \in AnalysisResults : Analyzed(res)

\* one run of the setInterval callback of the counters effect
intervalTick_noCap ==
  /\ DashboardMounted /\ ~IsNull(timer) /\ alert = NoAlert
  /\ LET target == Val(priority_summary)
         current == Val(timer)
         next == [red    |-> current.red + 1,
                  yellow |-> current.yellow + 1,
                  green  |-> current.green + 1]
     IN /\ animatedCounts' = next
        /\ timer' = IF /\ next.red >= target.RED /\ next.yellow >= target.YELLOW
                       /\ next.green >= target.GREEN
                       THEN Null ELSE Some(next)
  /\ UNCHANGED <<appVars, extractorVars, lastReset, exportVars, formVars, analysisReqs, dashVars,
                 modalVars, taperNetVars>>

intervalTick ==
  /\ DashboardMounted /\ ~IsNull(timer) /\ alert = NoAlert
  /\ LET target == Val(priority_summary)
         current == Val(timer)
         next == [red    |-> IF current.red < target.RED THEN current.red + 1
                                                         ELSE current.red,
                  yellow |-> IF current.yellow < target.YELLOW THEN current.yellow + 1
                                                               ELSE current.yellow,
                  green  |-> IF current.green < target.GREEN THEN current.green + 1
                                                             ELSE current.green]
     IN /\ animatedCounts' = next
        /\ timer' = IF /\ next.red >= target.RED /\ next.yellow >= target.YELLOW
                       /\ next.green >= target.GREEN
                       THEN Null ELSE Some(next)
  /\ UNCHANGED <<appVars, extractorVars, lastReset, exportVars, formVars, analysisReqs, dashVars,
                 modalVars, taperNetVars>>

NextView ==
  \/ intervalTick
  \/ handleReset

SpecView == InitView /\ [][NextView]_vars

\* setInterval keeps calling the callback every 100 ms until clearInterval
SpecViewFair == SpecView /\ WF_vars(intervalTick)

\* ---------------------------------------------------------------- exports
\* The two exports read the analysis result and the rendered view and write
\* only their own state.  They are specified, together with the focus
\* handlers, from a dashboard just mounted on the result of analyzedRecord.

\* generateProfessionalPDF up to its await
generateProfessionalPDF ==
  /\ ClinicalReportOffered /\ alert = NoAlert
  /\ isPdfGenerating' = TRUE
  /\ pdfReqs' = pdfReqs + 1
  /\ UNCHANGED <<appVars, extractorVars, lastReset, viewVars, formVars, analysisReqs, dashVars,
                 modalVars, taperNetVars, shotReqs, lastExport>>

\* generateProfessionalPDF after its await, the post fulfilled: the blob is
\* handed to the browser as a download; finally
generateProfessionalPDFFulfilled ==
  /\ DashboardMounted /\ pdfReqs > 0 /\ alert = NoAlert
  /\ pdfReqs' = pdfReqs - 1
  /\ lastExport' = "report saved"
  /\ isPdfGenerating' = FALSE
  /\ UNCHANGED <<appVars, extractorVars, lastReset, viewVars, formVars, analysisReqs, dashVars,
                 modalVars, taperNetVars, shotReqs>>

\* generateProfessionalPDF after its await, the post rejected: catch logs to
\* the console; finally
generateProfessionalPDFRejected_noFinally ==
  /\ DashboardMounted /\ pdfReqs > 0 /\ alert = NoAlert
  /\ pdfReqs' = pdfReqs - 1
  /\ lastExport' = "report failed"
  /\ isPdfGenerating' = isPdfGenerating
  /\ UNCHANGED <<appVars, extractorVars, lastReset, viewVars, formVars, analysisReqs, dashVars,
                 modalVars, taperNetVars, shotReqs>>

generateProfessionalPDFRejected ==
  /\ DashboardMounted /\ pdfReqs > 0 /\ alert = NoAlert
  /\ pdfReqs' = pdfReqs - 1
  /\ lastExport' = "report failed"
  /\ isPdfGenerating' = FALSE
  /\ UNCHANGED <<appVars, extractorVars, lastReset, viewVars, formVars, analysisReqs, dashVars,
                 modalVars, taperNetVars, shotReqs>>

\* handleExportPDF up to its await: the element results-pdf-container is
\* rendered by the component that renders the button, html2canvas starts
handleExportPDF ==
  /\ QuickScreenshotOffered /\ alert = NoAlert
  /\ shotReqs < MaxShots
  /\ shotReqs' = shotReqs + 1
  /\ UNCHANGED <<appVars, extractorVars, lastReset, viewVars, formVars, analysisReqs, dashVars,
                 modalVars, taperNetVars, isPdfGenerating, pdfReqs, lastExport>>

\* handleExportPDF after its await, html2canvas fulfilled: pdf.save
handleExportPDFResumes ==
  /\ DashboardMounted /\ shotReqs > 0 /\ alert = NoAlert
  /\ shotReqs' = shotReqs - 1
  /\ lastExport' = "snapshot saved"
  /\ UNCHANGED <<appVars, extractorVars, lastReset, viewVars, formVars, analysisReqs, dashVars,
                 modalVars, taperNetVars, isPdfGenerating, pdfReqs>>

\* html2canvas rejected: the handler has no catch, nothing is saved
handleExportPDFRejected ==
  /\ DashboardMounted /\ shotReqs > 0 /\ alert = NoAlert
  /\ shotReqs' = shotReqs - 1
  /\ lastExport' = "snapshot failed"
  /\ UNCHANGED <<appVars, extractorVars, lastReset, viewVars, formVars, analysisReqs, dashVars,
                 modalVars, taperNetVars, isPdfGenerating, pdfReqs>>

InitExport == \E res \in Responses(analyzedRecord) : Analyzed(res)

NextExport ==
  \/ generateProfessionalPDF
  \/ generateProfessionalPDFFulfilled
  \/ generateProfessionalPDFRejected
  \/ handleExportPDF
  \/ handleExportPDFResumes
  \/ handleExportPDFRejected
  \/ \E m \in 1..MaxMeds : handleViewTaper(m)
  \/ \E m \in 1..MaxMeds : handleViewMonitoring(m)
  \/ closeTaperModal
  \/ closeMonitoringModal
  \/ \E i \in 1..Len(Interactions) : handleViewInteraction(i)
  \/ closeInteractionModal
  \/ \E k \in 1..Len(taperReqs), plan \in TaperPlans : fetchTaperPlanFulfilled(k, plan)
  \/ \E k \in 1..Len(taperReqs), msg \in TaperErrors : fetchTaperPlanRejected(k, msg)
  \/ \E m \in 1..MaxMeds : orphanSettles(m)
  \/ handleReset

SpecExport == InitExport /\ [][NextExport]_vars

\* ---------------------------------------------------- MedicationExtractor
\* The extractor is a child of PatientForm; it writes its own drafts and,
\* through onMedicationsExtracted, the form's medication list.  It is
\* specified from the initial form with addMedication beside it.

\* response.data.medications of the extraction endpoints
ExtractionResponses ==
  { <<[generic_name |-> "diazepam", dose |-> "5mg", duration |-> ""]>>,
    <<[generic_name |-> "diazepam", dose |-> "5mg", duration |-> ""],
      [generic_name |-> "zolpidem", dose |-> "10mg", duration |-> "short_term"]>> }

\* what the user can type into a field of a draft card
Edits == { [field |-> "dose", value |-> "2mg"] }

ExtractAlert == "Error extracting medications: Network Error"

AddedAlert(n) ==
  CASE n = 1 -> "Added 1 medication(s)! Review and edit them below if needed."
    [] n = 2 -> "Added 2 medication(s)! Review and edit them below if needed."
    [] OTHER -> "Added 3 medication(s)! Review and edit them below if needed."

\* handleFileUpload up to its await; the file input is disabled while loading
handleFileUpload ==
  /\ FormMounted /\ ~extractLoading /\ alert = NoAlert
  /\ extractLoading' = TRUE
  /\ extractReqs' = extractReqs + 1
  /\ UNCHANGED <<appVars, lastReset, viewVars, exportVars, formVars, analysisReqs,
                 dashVars, modalVars, taperNetVars, extractedMeds>>
  /\ confirmRun' = noRun

\* handleFileUpload after its await, the post fulfilled with medications meds:
\* the drafts are replaced, each draft takes its index as id
handleFileUploadFulfilled_sameId(meds) ==
  /\ FormMounted /\ extractReqs > 0 /\ alert = NoAlert
  /\ extractReqs' = extractReqs - 1
  /\ extractedMeds' = [idx \in 1..Len(meds) |->
                         [id |-> 0, generic_name |-> meds[idx].generic_name,
                          dose |-> meds[idx].dose, duration |-> meds[idx].duration]]
  /\ extractLoading' = FALSE
  /\ UNCHANGED <<appVars, lastReset, viewVars, exportVars, formVars, analysisReqs,
                 dashVars, modalVars, taperNetVars>>
  /\ confirmRun' = noRun

handleFileUploadFulfilled(meds) ==
  /\ FormMounted /\ extractReqs > 0 /\ alert = NoAlert
  /\ extractReqs' = extractReqs - 1
  /\ extractedMeds' = [idx \in 1..Len(meds) |->
                         [id |-> idx - 1, generic_name |-> meds[idx].generic_name,
                          dose |-> meds[idx].dose, duration |-> meds[idx].duration]]
  /\ extractLoading' = FALSE
  /\ UNCHANGED <<appVars, lastReset, viewVars, exportVars, formVars, analysisReqs,
                 dashVars, modalVars, taperNetVars>>
  /\ confirmRun' = noRun

\* handleFileUpload after its await, the post rejected: alert, then finally
handleFileUploadRejected ==
  /\ FormMounted /\ extractReqs > 0 /\ alert = NoAlert
  /\ extractReqs' = extractReqs - 1
  /\ alert' = ExtractAlert
  /\ extractLoading' = FALSE
  /\ UNCHANGED <<appVars, lastReset, viewVars, exportVars, formData, analysisReqs,
                 dashVars, modalVars, taperNetVars, extractedMeds>>
  /\ confirmRun' = noRun

handleEdit(id, field, value) ==
  /\ FormMounted /\ alert = NoAlert
  /\ \E k \in 1..Len(extractedMeds) : extractedMeds[k].id = id
  /\ extractedMeds' = [k \in 1..Len(extractedMeds) |->
                         IF extractedMeds[k].id = id
                           THEN [extractedMeds[k] EXCEPT ![field] = value]
                           ELSE extractedMeds[k]]
  /\ UNCHANGED <<appVars, lastReset, viewVars, exportVars, formVars, analysisReqs,
                 dashVars, modalVars, taperNetVars, extractLoading, extractReqs>>
  /\ confirmRun' = noRun

handleDelete(id) ==
  /\ FormMounted /\ alert = NoAlert
  /\ \E k \in 1..Len(extractedMeds) : extractedMeds[k].id = id
  /\ extractedMeds' = SelectSeq(extractedMeds, LAMBDA m : m.id # id)
  /\ UNCHANGED <<appVars, lastReset, viewVars, exportVars, formVars, analysisReqs,
                 dashVars, modalVars, taperNetVars, extractLoading, extractReqs>>
  /\ confirmRun' = noRun

\* handleConfirm's map: the fields of a form medication, duration || 'unknown'
formatted(drafts) ==
  [k \in 1..Len(drafts) |->
     [generic_name |-> drafts[k].generic_name,
      dose |-> drafts[k].dose,
      duration |-> IF drafts[k].duration = "" THEN "unknown" ELSE drafts[k].duration]]

\* PatientForm.handleExtractedMeds: [...prev.medications, ...extractedMeds]
handleExtractedMeds_replaces(prev, meds) == meds

handleExtractedMeds(prev, meds) == prev \o meds

\* Confirm & Add All Medications, rendered when there are drafts
handleConfirm_clearsDrafts ==
  /\ FormMounted /\ alert = NoAlert
  /\ Len(extractedMeds) > 0
  /\ Len(formData.medications) + Len(extractedMeds) <= MaxListLen
  /\ formData' = [formData EXCEPT
                    !.medications = handleExtractedMeds(@, formatted(extractedMeds))]
  /\ alert' = AddedAlert(Len(extractedMeds))
  /\ confirmRun' = IF confirmRun.k = 0
                     THEN [k |-> 1, base |-> Len(formData.medications)]
                     ELSE [confirmRun EXCEPT !.k = @ + 1]
  /\ extractedMeds' = <<>>
  /\ UNCHANGED <<appVars, lastReset, viewVars, exportVars, extractLoading,
                 extractReqs, analysisReqs, dashVars, modalVars, taperNetVars>>

handleConfirm ==
  /\ FormMounted /\ alert = NoAlert
  /\ Len(extractedMeds) > 0
  /\ Len(formData.medications) + Len(extractedMeds) <= MaxListLen
  /\ formData' = [formData EXCEPT
                    !.medications = handleExtractedMeds(@, formatted(extractedMeds))]
  /\ alert' = AddedAlert(Len(extractedMeds))
  /\ confirmRun' = IF confirmRun.k = 0
                     THEN [k |-> 1, base |-> Len(formData.medications)]
                     ELSE [confirmRun EXCEPT !.k = @ + 1]
  /\ UNCHANGED <<appVars, lastReset, viewVars, exportVars, extractedMeds, extractLoading,
                 extractReqs, analysisReqs, dashVars, modalVars, taperNetVars>>

NextExtractor ==
  \/ handleFileUpload
  \/ \E meds \in ExtractionResponses : handleFileUploadFulfilled(meds)
  \/ handleFileUploadRejected
  \/ \E id \in 0..MaxListLen, e \in Edits : handleEdit(id, e.field, e.value)
  \/ \E id \in 0..MaxListLen : handleDelete(id)
  \/ handleConfirm
  \/ \E c \in CurrentMedications : addMedication(c)
  \/ dismissAlert

SpecExtractor == Init /\ [][NextExtractor]_vars

\* ------------------------------------------------------------------ claims
otherVars == <<dashVars, modalVars, taperNetVars>>

C2_InvalidSubmitChangesNothing ==
  [][ ((formData.age = "" \/ Len(formData.medications) = 0) /\ handleSubmit)
        => /\ UNCHANGED <<appVars, lastReset, viewVars, exportVars, extractorVars, formData,
                          analysisReqs, otherVars>>
           /\ alert' = ValidationAlert
           /\ ~isLoading' /\ ~showResults' ]_vars

C2_Witness ==
  /\ alert = ValidationAlert
  /\ formData.age # "" /\ Len(formData.medications) = 0
  /\ analysisReqs = <<>> /\ ~isLoading /\ ~showResults

\* the workflow is Collecting: nothing of an analysis is stored or shown and no
\* TaperModal instance is alive
InCollecting ==
  /\ ~isLoading /\ error = NoError
  /\ IsNull(patientData) /\ IsNull(results) /\ ~showResults
  /\ ~DashboardMounted /\ ~TaperModalMounted
  /\ ~showTaperModal /\ ~showMonitoringModal /\ ~showInteractionModal
  /\ IsNull(taperPlan) /\ IsNull(taperError)
  /\ taperReqs = <<>> /\ orphanReqs = noOrphans

C5_SuccessYieldsAnalyzed ==
  [][ (/\ Len(analysisReqs) = 1
       /\ ~IsNull(analysisReqs[1].response)
       /\ Val(analysisReqs[1].response).ok
       /\ analysisReqs' = <<>>)
        => /\ results' = Val(analysisReqs[1].response).payload
           /\ patientData' = Some(analysisReqs[1].formData)
           /\ showResults' /\ ~isLoading' /\ error' = NoError
           /\ selectedMedication' = 0 /\ selectedInteraction' = 0
           /\ ~showTaperModal' /\ ~showMonitoringModal' /\ ~showInteractionModal'
           /\ IsNull(taperPlan') /\ IsNull(taperError')
           /\ taperReqs' = <<>> /\ orphanReqs' = noOrphans /\ settled' = {} ]_vars

C5_Witness ==
  /\ showResults /\ ~isLoading /\ error = NoError
  /\ ~IsNull(results) /\ ~IsNull(patientData)
  /\ Len(medication_analyses) = Len(Val(patientData).medications)
  /\ selectedMedication = 0 /\ ~showTaperModal /\ ~showInteractionModal
  /\ analysisReqs = <<>>

\* C6: the continuation of a rejected analysis request sets the error to the
\* service detail, else the error message, else the fixed default, which is
\* never empty; it shows no results and stores no result or patient record.
C6_FailureYieldsError ==
  [][ (/\ Len(analysisReqs) = 1
       /\ ~IsNull(analysisReqs[1].response)
       /\ ~Val(analysisReqs[1].response).ok
       /\ analysisReqs' = <<>>)
        => LET err == Val(Val(analysisReqs[1].response).err) IN
           /\ error' \notin {NoError, ""}
           /\ err.detail # "" => error' = err.detail
           /\ err.detail = "" /\ err.message # "" => error' = err.message
           /\ err.detail = "" /\ err.message = "" => error' = DefaultError
           /\ ~showResults' /\ ~isLoading'
           /\ IsNull(results') /\ IsNull(patientData') ]_vars

C6_Witness ==
  /\ error = DefaultError
  /\ ~isLoading /\ ~showResults /\ IsNull(results)
  /\ analysisReqs = <<>>

\* C7: in every state with an error both the form (submit) and Try Again
\* (reset) are rendered; a reset run there leaves Collecting with the error
\* cleared; and whenever a request is outstanding the error has been cleared.
C7_ErrorNotTerminal ==
  /\ error # NoError => error # "" /\ FormMounted /\ TryAgainOffered
  /\ lastReset = "Error" => error = NoError /\ InCollecting
  /\ analysisReqs # <<>> => error = NoError

C7_Witness ==
  /\ error \notin {NoError, ""}
  /\ ~isLoading /\ ~showResults
  /\ formData.age # "" /\ Len(formData.medications) > 0
  /\ alert = NoAlert

\* getTaperPlan calls in flight for medication m of the mounted dashboard
reqCount(m) == liveCount(m) + orphanReqs[m]

\* C8: however the taper plan of a medication is focused, closed and focused
\* again, at most one generateTaperPlan request for it is outstanding.
C8_OneRequestPerMedication ==
  \A m \in 1..MaxMeds : reqCount(m) <= 1

\* C9: within one analysis, once the taper-plan fetch of a medication has
\* settled, no step issues another generateTaperPlan request for it.
C9_SettledFetchReused ==
  [][ \A m \in settled : reqCount(m)' <= reqCount(m) ]_vars

\* C10: the continuation of a request that a newer request for the same
\* medication has superseded never changes what the modal displays.
C10_StaleResolutionDiscarded ==
  [][ \A k \in 1..Len(taperReqs) :
        (/\ taperReqs[k].superseded
         /\ taperReqs' = RemoveAt(taperReqs, k)
         /\ TaperModalMounted')
          => UNCHANGED <<taperPlan, loading, taperError, isAiGenerated>> ]_vars

\* C11: with calls for two different medications pending in the open modal,
\* the continuation of a call issued for a medication other than the focused
\* one never changes the plan, error or loading state that is displayed.
C11_ResponseStoredUnderOwnMedication ==
  [][ \A k \in 1..Len(taperReqs) :
        (/\ taperReqs[k].med # selectedMedication
         /\ taperReqs' = RemoveAt(taperReqs, k)
         /\ TaperModalMounted')
          => UNCHANGED <<taperPlan, loading, taperError, isAiGenerated>> ]_vars

\* C12: a rejected getTaperPlan call leaves the App state as it is, in
\* Analyzed; it is recorded only for the medication it was issued for, so it
\* is not applied while another medication is focused, and the error shown is
\* gone once the open modal is given another medication.
C12_FailureLocalToItsMedication ==
  [][ /\ \A k \in 1..Len(taperReqs) :
           (\E msg \in TaperErrors : fetchTaperPlanRejected(k, msg))
             => /\ UNCHANGED appVars
                /\ DashboardMounted' /\ error' = NoError
                /\ taperReqs[k].med = selectedMedication
      /\ (/\ TaperModalMounted /\ TaperModalMounted'
          /\ selectedMedication' # selectedMedication)
           => IsNull(taperError') ]_vars

\* C13: at most one of the taper, monitoring and interaction detail views is
\* rendered at a time.
C13_AtMostOneFocus ==
  Cardinality({v \in {"taper", "monitoring", "interaction"} :
                 \/ v = "taper" /\ TaperModalMounted
                 \/ v = "monitoring" /\ MonitoringModalMounted
                 \/ v = "interaction" /\ InteractionModalMounted}) <= 1

\* C14: whenever a detail view is open, or a getTaperPlan call of the current
\* dashboard is pending or has settled, the workflow is Analyzed: the analysis
\* result and patient record are stored and shown, nothing is loading and no
\* error is set.
C14_FocusOnlyInAnalyzed ==
  (\/ showTaperModal \/ showMonitoringModal \/ showInteractionModal
   \/ selectedMedication # 0 \/ selectedInteraction # 0
   \/ InFlight > 0 \/ settled # {})
    => /\ ~IsNull(results) /\ ~IsNull(patientData)
       /\ showResults /\ ~isLoading /\ error = NoError
       /\ analysisReqs = <<>>

C14_Witness ==
  /\ TaperModalMounted /\ MonitoringModalMounted
  /\ Len(taperReqs) > 0 /\ settled # {}
  /\ ~IsNull(results) /\ showResults /\ ~isLoading

\* the number of entries of medication_analyses up to position i that are in
\* the category of entry i
RankInCategory(i) ==
  Cardinality({j \in 1..i : medication_analyses[j].risk_category =
                             medication_analyses[i].risk_category})

PartitionOf(cat) ==
  CASE cat = "RED" -> redMedications
    [] cat = "YELLOW" -> yellowMedications
    [] OTHER -> greenMedications

\* C15: the RED, YELLOW and GREEN lists share no entry, have together as many
\* entries as medication_analyses, and taking for each original position the
\* next entry of the list of its category gives back medication_analyses.
C15_PartitionsReconstructList ==
  /\ \A c, d \in Categories :
       c # d => \A i \in 1..Len(PartitionOf(c)), j \in 1..Len(PartitionOf(d)) :
                  PartitionOf(c)[i] # PartitionOf(d)[j]
  /\ Len(redMedications) + Len(yellowMedications) + Len(greenMedications)
       = Len(medication_analyses)
  /\ \A i \in 1..Len(medication_analyses) :
       LET part == PartitionOf(medication_analyses[i].risk_category) IN
       /\ RankInCategory(i) <= Len(part)
       /\ part[RankInCategory(i)] = medication_analyses[i]

C15_Witness ==
  /\ DashboardMounted
  /\ Len(medication_analyses) = MaxMeds
  /\ medication_analyses[1].risk_category = "GREEN"
  /\ medication_analyses[MaxMeds].risk_category = "YELLOW"
  /\ Len(greenMedications) >= 1 /\ Len(yellowMedications) >= 1

\* C16: once the counters have stopped, the count displayed for each category
\* is the number of medications in that category's list, whatever aggregate
\* counts the service reported.
C16_CountsFromPartition ==
  (DashboardMounted /\ ~IsNull(priority_summary) /\ IsNull(timer))
    => animatedCounts = [red |-> Len(redMedications),
                         yellow |-> Len(yellowMedications),
                         green |-> Len(greenMedications)]

\* C17: the continuation of a rejected report request, run while the
\* dashboard is shown, leaves the App state, the focus, the taper modal and
\* the other export as they are and the workflow Analyzed; it only clears
\* isPdfGenerating, and nothing is saved.
C17_FailedReportChangesNothing ==
  [][ generateProfessionalPDFRejected
        => /\ UNCHANGED <<appVars, dashVars, modalVars, taperNetVars, viewVars,
                          formVars, analysisReqs, shotReqs>>
           /\ DashboardMounted' /\ error' = NoError
           /\ isPdfGenerating /\ ~isPdfGenerating'
           /\ lastExport' = "report failed" ]_vars

C17_Witness ==
  /\ lastExport = "report failed"
  /\ DashboardMounted /\ ~isPdfGenerating /\ pdfReqs = 0
  /\ TaperModalMounted /\ ~IsNull(taperPlan)

C20_ConfirmAppendsDrafts ==
  [][ handleConfirm
        => LET old == formData.medications
               new == formData'.medications
               n == Len(extractedMeds)
           IN /\ Len(new) = Len(old) + n
              /\ \A i \in 1..Len(old) : new[i] = old[i]
              /\ \A i \in 1..n :
                   /\ new[Len(old) + i].generic_name = extractedMeds[i].generic_name
                   /\ new[Len(old) + i].dose = extractedMeds[i].dose
                   /\ new[Len(old) + i].duration =
                        (IF extractedMeds[i].duration = "" THEN "unknown"
                                                          ELSE extractedMeds[i].duration)
              /\ formData'.age = formData.age ]_vars

\* a manual entry, then the second draft alone with its dose edited
C20_Witness ==
  /\ alert = AddedAlert(1)
  /\ Len(extractedMeds) = 1 /\ extractedMeds[1].id = 1
  /\ extractedMeds[1].dose = "2mg"
  /\ Len(formData.medications) = 2
  /\ formData.medications[1] \in CurrentMedications
  /\ formData.medications[2] =
       [generic_name |-> "zolpidem", dose |-> "2mg", duration |-> "short_term"]

\* ---------------------------------------------------------------- C21..C30
\* {herb_drug_interactions?.length > 0 && <HerbDrugInteractionsSection .../>}:
\* the section maps the list to cards in the order it has, one card per entry
InteractionsSectionMounted == DashboardMounted /\ Len(herb_drug_interactions) > 0
displayedInteractions ==
  IF InteractionsSectionMounted
    THEN [index \in 1..Len(herb_drug_interactions) |-> herb_drug_interactions[index]]
    ELSE <<>>

\* C21: the displayed interaction list is the service's list sorted Major
\* before Moderate before Minor, entries of one severity in their original
\* order, nothing added, dropped or altered
C21_InteractionsSortedBySeverity ==
  DashboardMounted =>
    displayedInteractions =
      SelectSeq(herb_drug_interactions, LAMBDA x : x.severity = "Major")
        \o SelectSeq(herb_drug_interactions, LAMBDA x : x.severity = "Moderate")
        \o SelectSeq(herb_drug_interactions, LAMBDA x : x.severity = "Minor")

\* the workflow under the scheduling the code relies on: the gateway call
\* of an outstanding analysis resolves (fulfils or rejects), and the
\* continuation of a resolved call is run by the event loop
gatewayResolves ==
  \E k \in 1..Len(analysisReqs) : analyzePatientFulfils(k) \/ analyzePatientRejects(k)
continuationRuns == \E k \in 1..Len(analysisReqs) : handlePatientSubmitResumes(k)
SpecLive == Spec /\ WF_vars(gatewayResolves) /\ WF_vars(continuationRuns)

InSubmitting == isLoading
InAnalyzed == ~isLoading /\ showResults /\ ~IsNull(results) /\ ~IsNull(patientData)
InError == ~isLoading /\ ~showResults /\ error # NoError

\* C22: every submitted analysis eventually leaves Submitting (the gateway
\* call resolving): loading is cleared and the workflow is in Analyzed or in
\* Error; loading is never set in a state with no outstanding analysis request
C22_SubmittingEventuallyLeaves ==
  /\ [](isLoading => Len(analysisReqs) > 0)
  /\ [][InSubmitting /\ ~InSubmitting' => InAnalyzed' \/ InError']_vars
  /\ (InSubmitting ~> (InAnalyzed \/ InError))

C22_Witness ==
  /\ InAnalyzed /\ analysisReqs = <<>> /\ lastReset = "none"
  /\ Len(medication_analyses) = 2 /\ error = NoError

\* C27: the results view is shown only with a result and a patient record,
\* and no two of {loading, results shown, error present} hold together
C27_WorkflowStatesExclusive ==
  /\ showResults => ~IsNull(results) /\ ~IsNull(patientData)
  /\ DashboardMounted = showResults
  /\ ~(isLoading /\ showResults)
  /\ ~(isLoading /\ error # NoError)
  /\ ~(showResults /\ error # NoError)

C27_Witness ==
  /\ showResults /\ TaperModalMounted /\ selectedMedication = 2
  /\ ~isLoading /\ error = NoError /\ lastReset = "none"

\* C23: a taper request issued for a medication carries the dose and the
\* duration of that medication's own entry of the patient record, also when
\* another entry has the same generic name up to case
C23_RequestCarriesOwnEntry ==
  \A k \in 1..Len(taperReqs) :
     LET own == Val(patientData).medications[taperReqs[k].med]
     IN /\ taperReqs[k].request.current_dose = own.dose
        /\ taperReqs[k].request.duration_on_medication = own.duration

\* targetRed, targetYellow, targetGreen of the counters effect
targetCounts ==
  [red |-> Val(priority_summary).RED, yellow |-> Val(priority_summary).YELLOW,
   green |-> Val(priority_summary).GREEN]
CounterNames == {"red", "yellow", "green"}
CountersRunning == DashboardMounted /\ ~IsNull(priority_summary)

\* C24: the displayed counters start at 0; a counter changes only in a timer
\* tick and then by +1, a tick raising every counter still below its target
\* whatever the other two are; no counter exceeds its target or changes once
\* it equals it; with the timer stopped no tick occurs; and while the
\* dashboard stays shown the three counters eventually equal their targets
\* with the timer stopped
C24_CountersReachTargets ==
  /\ animatedCounts = zeroCounts
  /\ [](CountersRunning => \A c \in CounterNames : animatedCounts[c] <= targetCounts[c])
  /\ [][ (CountersRunning /\ CountersRunning')
          => \A c \in CounterNames :
               /\ animatedCounts'[c] \in {animatedCounts[c], animatedCounts[c] + 1}
               /\ animatedCounts'[c] # animatedCounts[c] => intervalTick
               /\ animatedCounts[c] = targetCounts[c] => animatedCounts'[c] = animatedCounts[c]
               /\ (intervalTick /\ animatedCounts[c] < targetCounts[c])
                     => animatedCounts'[c] = animatedCounts[c] + 1 ]_vars
  /\ [][ IsNull(timer) => ~intervalTick /\ IsNull(timer') ]_vars
  /\ (CountersRunning ~> (~CountersRunning \/ (animatedCounts = targetCounts /\ IsNull(timer))))

C24_Witness ==
  /\ CountersRunning /\ IsNull(timer)
  /\ targetCounts = [red |-> 2, yellow |-> 1, green |-> 0]
  /\ animatedCounts = targetCounts

\* C25: a generateTaperPlan request is issued again for a medication whose
\* fetch was already started only from Failed: no request for it is pending
\* (not from Loading), exactly one request is issued, and the modal then shows
\* loading with no failure reason
C25_RetryOnlyFromFailed ==
  [][ \A m \in 1..MaxMeds :
        (/\ reqCount(m)' > reqCount(m)
         /\ (m \in settled \/ reqCount(m) > 0))
          => /\ reqCount(m) = 0
             /\ reqCount(m)' = 1
             /\ TaperModalMounted' /\ selectedMedication' = m
             /\ loading' /\ IsNull(taperError') ]_vars

\* {taperPlan && ... taperPlan.steps.map((step, index) => <div key={index}>
\* Week {step.week} ...)}: the schedule cards the modal renders
renderedSteps_firstFour ==
  IF TaperModalMounted /\ ~IsNull(taperPlan)
    THEN [index \in 1..(IF Len(Val(taperPlan).steps) > 4 THEN 4 ELSE Len(Val(taperPlan).steps)) |->
            [key |-> index - 1, week |-> Val(taperPlan).steps[index]]]
    ELSE <<>>

renderedSteps ==
  IF TaperModalMounted /\ ~IsNull(taperPlan)
    THEN [index \in 1..Len(Val(taperPlan).steps) |->
            [key |-> index - 1, week |-> Val(taperPlan).steps[index]]]
    ELSE <<>>

C28_OneFetchOutcomeShown ==
  (TaperModalMounted /\ (~IsNull(taperPlan) \/ ~IsNull(taperError)))
    => Cardinality({f \in {"loading", "error", "taperPlan"} :
                      \/ f = "loading" /\ loading
                      \/ f = "error" /\ ~IsNull(taperError)
                      \/ f = "taperPlan" /\ ~IsNull(taperPlan)}) <= 1

\* C29: handleConfirm leaves the drafts as they are, so after k
\* confirmations in a row of n drafts, nothing else run in between but
\* closing the alert, the form's medication list has grown by k * n
C29_RepeatedConfirmGrowsByKN ==
  /\ [][handleConfirm => extractedMeds' = extractedMeds]_vars
  /\ [](confirmRun.k > 0
         => Len(formData.medications) = confirmRun.base + confirmRun.k * Len(extractedMeds))

C29_Witness ==
  /\ confirmRun.k = 2 /\ confirmRun.base = 1
  /\ Len(extractedMeds) = 1 /\ Len(formData.medications) = 3
  /\ formData.medications[2] = formData.medications[3]

\* the ids of the drafts are pairwise distinct
DistinctIds(drafts) ==
  \A i, j \in 1..Len(drafts) : i # j => drafts[i].id # drafts[j].id

\* C30: a rejected upload leaves the drafts and the form's medication list
\* as they are and clears the extractor's loading flag; a fulfilled one
\* replaces the drafts by the returned medications, whatever the drafts were,
\* with pairwise distinct ids; so an edit changes the one draft with the
\* given id and no other, and a delete removes that one draft and no other
C30_UploadOutcomesAndDraftIds ==
  /\ [][ handleFileUploadRejected
            => UNCHANGED <<extractedMeds, formData>> /\ ~extractLoading' ]_vars
  /\ [][ \A meds \in ExtractionResponses :
            handleFileUploadFulfilled(meds)
              => /\ Len(extractedMeds') = Len(meds)
                 /\ \A i \in 1..Len(meds) :
                       /\ extractedMeds'[i].generic_name = meds[i].generic_name
                       /\ extractedMeds'[i].dose = meds[i].dose
                       /\ extractedMeds'[i].duration = meds[i].duration
                 /\ ~extractLoading' ]_vars
  /\ []DistinctIds(extractedMeds)
  /\ [][ \A id \in 0..MaxListLen, e \in Edits :
            handleEdit(id, e.field, e.value)
              => /\ Len(extractedMeds') = Len(extractedMeds)
                 /\ Cardinality({k \in 1..Len(extractedMeds) : extractedMeds[k].id = id}) = 1
                 /\ \A k \in 1..Len(extractedMeds) :
                       IF extractedMeds[k].id = id
                         THEN extractedMeds'[k] = [extractedMeds[k] EXCEPT ![e.field] = e.value]
                         ELSE extractedMeds'[k] = extractedMeds[k] ]_vars
  /\ [][ \A id \in 0..MaxListLen :
            handleDelete(id)
              => /\ Len(extractedMeds') = Len(extractedMeds) - 1
                 /\ \E k \in 1..Len(extractedMeds) :
                       /\ extractedMeds[k].id = id
                       /\ extractedMeds' = RemoveAt(extractedMeds, k) ]_vars

C30_Witness ==
  /\ alert = ExtractAlert /\ ~extractLoading /\ extractReqs = 0
  /\ Len(extractedMeds) = 1 /\ extractedMeds[1].id = 1
  /\ extractedMeds[1].dose = "2mg"
  /\ formData.medications = <<>>

====
